---- MODULE Spec2Model ----
(***************************************************************************)
(* A model of the two MOSFiT modules                                       *)
(*   mosfit/modules/engines/shock_cocoon.py          (class Shock)         *)
(*   mosfit/modules/energetics/bns_ejecta_generative.py (class BNSEjecta)  *)
(*                                                                         *)
(* One module object is modelled: `module' says which class it is, `self'  *)
(* holds its instance attributes, and each call of process, with its       *)
(* keyword arguments, is one action.  Python 3 semantics are assumed (1/3   *)
(* and 4/(s+2) are true divisions).                                        *)
(*                                                                         *)
(* Numbers.  Quantities the code computes with rational operations are     *)
(* kept exactly or in fixed point (units are given at each definition).    *)
(* IEEE-754 doubles whose value passes through a real power, a square      *)
(* root or a quadrature are kept as their class                            *)
(*      "nan" | "neg" | "zero" | "pos" | "inf"                             *)
(* with the IEEE rules for the special values (0*inf = nan, 0/0 = nan,     *)
(* 0**negative = inf as numpy computes it, ...).  "pos" and "neg" are      *)
(* finite and non-zero; the inputs are small, so no product of finite      *)
(* values overflows or underflows.                                         *)
(***************************************************************************)
EXTENDS Integers, Sequences, FiniteSets, TLC

VARIABLES
    module,      \* "Shock" or "BNSEjecta": the class of the module object
    self,        \* the object's instance attributes (name -> value)
    kwargs,      \* the keyword arguments of the last process call
    frame,       \* the local variables of the last process call at its return
    result,      \* the dictionary the last process call returned
    dense_times, \* the caller's dense_times list object, as it is now
    reused       \* history: the object had served a call before the last one

vars == <<module, self, kwargs, frame, result, dense_times, reused>>

\* Longest dense_times list the caller passes.
MaxLen == 3

(***************************************************************************)
(* IEEE-754 classes                                                        *)
(***************************************************************************)
\* The class of an integer-valued input.
Cls(x) == IF x = 0 THEN "zero" ELSE IF x > 0 THEN "pos" ELSE "neg"

\* a * b.  Of the infinities only +inf occurs, and never beside a negative
\* operand.
FMul(a, b) ==
    IF a = "nan" \/ b = "nan" THEN "nan"
    ELSE IF {a, b} = {"zero", "inf"} THEN "nan"
    ELSE IF a = "zero" \/ b = "zero" THEN "zero"
    ELSE IF a = "inf" \/ b = "inf" THEN "inf"
    ELSE IF a = b THEN "pos"
    ELSE "neg"

\* a / b for numpy doubles: x/0 is inf (nan for 0/0), never an exception.
FDiv(a, b) ==
    IF a = "nan" \/ b = "nan" THEN "nan"
    ELSE IF a = b /\ a \in {"zero", "inf"} THEN "nan"
    ELSE IF b = "zero" THEN "inf"
    ELSE IF b = "inf" THEN "zero"
    ELSE a

\* a ** e for a non-negative base and an exponent of sign esign (-1 or 1).
FPow(a, esign) ==
    IF a \in {"nan", "pos"} THEN a
    ELSE IF esign > 0 THEN a
    ELSE IF a = "zero" THEN "inf" ELSE "zero"

\* numpy.sqrt of a non-negative double.
FSqrt(a) == a

\* math.isnan
IsNan(x) == x = "nan"

(***************************************************************************)
(* Shock.process                                                           *)
(***************************************************************************)
\* An element of ts: numpy.inf, or the elapsed time (an integer).
Inf == [inf |-> TRUE, val |-> 0]

Elapsed(n) == [inf |-> FALSE, val |-> n]

TimeCls(t) == IF t.inf THEN "inf" ELSE Cls(t.val)

\* A slip: an arccos that is never exactly 0.0.
ShockThetaNeverZero(c) == "pos"

\* numpy.arccos(cos_theta_cocoon), cos_theta_cocoon in hundredths in
\* [-100, 100]: exactly 0.0 at 1, positive below.
ShockTheta(c) == IF c = 100 THEN "zero" ELSE "pos"

\* The sign of the exponent -(4/(s+2)), s # -2.
ExponentSign(s) == IF s + 2 > 0 THEN -1 ELSE 1

\* A slip: s is taken from the keyword arguments only when the object has
\* no s yet.
ShockAssignKeepsS(obj, kw) ==
    [a \in DOMAIN obj \cup
           {"times", "rest_t_explosion", "kappa", "m_ejecta", "v_ejecta",
            "cos_theta_cocoon", "s", "t_shock"} |->
        CASE a = "times" -> kw.dense_times
          [] a = "rest_t_explosion" -> kw.resttexplosion
          [] a = "kappa" -> kw.kappa
          [] a = "m_ejecta" -> kw.mejecta
          [] a = "v_ejecta" -> kw.vejecta
          [] a = "cos_theta_cocoon" -> kw.cos_theta_cocoon
          [] a = "s" -> IF "s" \in DOMAIN obj THEN obj.s ELSE kw.s
          [] a = "t_shock" -> kw.tshock
          [] OTHER -> obj[a]]

\* Lines 30-41: the attributes process assigns from its keyword arguments.
ShockAssign(obj, kw) ==
    [a \in DOMAIN obj \cup
           {"times", "rest_t_explosion", "kappa", "m_ejecta", "v_ejecta",
            "cos_theta_cocoon", "s", "t_shock"} |->
        CASE a = "times" -> kw.dense_times
          [] a = "rest_t_explosion" -> kw.resttexplosion
          [] a = "kappa" -> kw.kappa
          [] a = "m_ejecta" -> kw.mejecta
          [] a = "v_ejecta" -> kw.vejecta
          [] a = "cos_theta_cocoon" -> kw.cos_theta_cocoon
          [] a = "s" -> kw.s
          [] a = "t_shock" -> kw.tshock
          [] OTHER -> obj[a]]

\* Lines 47-48: sqrt(DIFF_CONST * kappa * m_ejecta / v_ejecta) / DAY_CGS.
TauDiff(obj) ==
    FDiv(FSqrt(FDiv(FMul(FMul("pos", Cls(obj.kappa)), Cls(obj.m_ejecta)),
                    Cls(obj.v_ejecta))),
         "pos")

\* Lines 43-52: R = C_CGS * t_shock, theta = arccos(cos_theta_cocoon),
\* L0 = (theta**2/2)**(1/3) * (m*M_SUN*v*KM*R / (tau_diff*DAY)**2).
L0(obj, tau_diff) ==
    LET R     == FMul("pos", Cls(obj.t_shock))
        theta == ShockTheta(obj.cos_theta_cocoon)
    IN  FMul(FPow(FDiv(FPow(theta, 1), "pos"), 1),
             FDiv(FMul(FMul(FMul(FMul(Cls(obj.m_ejecta), "pos"),
                                 Cls(obj.v_ejecta)), "pos"), R),
                  FPow(FMul(tau_diff, "pos"), 1)))

\* Lines 54-58: numpy.inf before the explosion, else the elapsed time.
Ts(times, rest_t_explosion) ==
    [i \in 1..Len(times) |->
        IF rest_t_explosion > times[i] THEN Inf
        ELSE Elapsed(times[i] - rest_t_explosion)]

\* Line 60: L0 * (t/tau_diff)**-(4/(s+2)).
PowerLaw(l0, t, tau_diff, s) ==
    FMul(l0, FPow(FDiv(TimeCls(t), tau_diff), ExponentSign(s)))

\* Line 61: [0.0 if isnan(x) else x for x in luminosities].
ReplaceNan(x) == IF IsNan(x) THEN "zero" ELSE x

\* Lines 43-61, reading the attributes of the object: the locals at the
\* return statement.
ShockFrame(obj) ==
    LET tau_diff == TauDiff(obj)
        l0 == L0(obj, tau_diff)
        ts == Ts(obj.times, obj.rest_t_explosion)
    IN  [L0 |-> l0,
         ts |-> ts,
         luminosities |->
            [i \in 1..Len(ts) |->
                ReplaceNan(PowerLaw(l0, ts[i], tau_diff, obj.s))]]

\* Line 63: the returned dictionary.
ShockReturn(fr) == [luminosities |-> fr.luminosities]

ShockCompute(obj) == ShockReturn(ShockFrame(obj))

\* Line 47 stores tau_diff on the object.
ShockStore(obj) ==
    [a \in DOMAIN obj \cup {"tau_diff"} |->
        IF a = "tau_diff" THEN TauDiff(obj) ELSE obj[a]]

\* Lines 54-61 build new lists; the list the caller passed (self._times) is
\* only iterated.
TimesAfterShock(times) == times

(***************************************************************************)
(* Inputs of Shock.process                                                 *)
(***************************************************************************)
TimeSet == {0, 1, 2, 3}

\* Strictly increasing lists over TimeSet of at most MaxLen epochs.
IncreasingSeqs ==
    {sq \in UNION {[1..n -> TimeSet] : n \in 0..MaxLen} :
        \A i \in 1..Len(sq) - 1 : sq[i] < sq[i + 1]}

ShockInputs ==
    [dense_times : IncreasingSeqs,
     resttexplosion : {0, 1},
     kappa : {1, 10},
     mejecta : {1},
     vejecta : {1},
     cos_theta_cocoon : {-100, 50, 100},
     s : {-3, -1, 1},
     tshock : {100}]

\* Before the first call there are no arguments, locals or result.
NoCall == [none |-> TRUE]

Called == kwargs # NoCall

ShockProcess ==
    /\ module = "Shock"
    /\ \E kw \in ShockInputs :
        /\ kwargs' = kw
        /\ self' = ShockStore(ShockAssign(self, kw))
        /\ frame' = ShockFrame(ShockAssign(self, kw))
        /\ result' = ShockCompute(ShockAssign(self, kw))
        /\ dense_times' = TimesAfterShock(kw.dense_times)
    /\ reused' = Called
    /\ UNCHANGED module

(***************************************************************************)
(* BNSEjecta.process                                                       *)
(*                                                                         *)
(* Units of the fixed-point quantities:                                    *)
(*   Mchirp, m1, m2, m_total, Mb    1e-3 solar masses                      *)
(*   q                              1/QDen                                 *)
(*   Mtov                           1e-1 solar masses                      *)
(*   radius_ns                      1e-1 km                                *)
(*   compactness, vdynp, vdynz      1e-5                                   *)
(*   f_red                          1e-4                                   *)
(*   Mejdyn                         1e-6 solar masses                      *)
(*   mejecta_red, mejecta_blue      1e-10 solar masses                     *)
(*   cos_theta_open                 1e-5                                   *)
(*   theta_open, grid step          1e-5 rad                               *)
(*   Ye, vdisk                      exact fractions of 1e-2                *)
(* \div rounds down: a fixed-point value is within a few units of the      *)
(* double the code holds, and the fit of lines 85-88 within 0.1.            *)
(***************************************************************************)
\* The denominator of the mass ratios q the model passes.
QDen == 20

\* q**-0.6 * (q+1)**0.2 of line 45, in 1e-4.
MassFactor(qn) ==
    CASE qn = 10 -> 16438 [] qn = 18 -> 12112
      [] qn = 20 -> 11487 [] qn = 21 -> 11211

\* (m2/m1)**(1/3) and (m1/m2)**(1/3) of lines 85-86, in 1e-3.
CbrtRatio(qn) ==
    CASE qn = 10 -> 794 [] qn = 18 -> 965 [] qn = 20 -> 1000 [] qn = 21 -> 1016

CbrtInvRatio(qn) ==
    CASE qn = 10 -> 1260 [] qn = 18 -> 1036 [] qn = 20 -> 1000 [] qn = 21 -> 984

\* (m2/m1)**n and (m1/m2)**n of line 87, n = -2.5484, in 1e-3.
PowNRatio(qn) ==
    CASE qn = 10 -> 5850 [] qn = 18 -> 1308 [] qn = 20 -> 1000 [] qn = 21 -> 883

PowNInvRatio(qn) ==
    CASE qn = 10 -> 171 [] qn = 18 -> 765 [] qn = 20 -> 1000 [] qn = 21 -> 1132

\* numpy.arccos(cos_theta_open) of line 62.
ArccosOpen(c) ==
    CASE c = 100000 -> 0 [] c = 99999 -> 447 [] c = 50000 -> 104720
      [] c = 500 -> 156580 [] c = 0 -> 157080 [] c = -100000 -> 314159

\* numpy.pi/2 of line 124.
HalfPi == 157080

\* G_CGS * M_SUN_CGS / (1e5 * C_CGS**2) of lines 69-70: 1.4766 km per solar
\* mass, in 1e-4.
GravRadius == 14766

\* Line 45: Mchirp * q**-0.6 * (q+1)**0.2.
M1(mchirp, qn) == (mchirp * MassFactor(qn)) \div 10000

\* Line 47: m1 * q.
M2(m1, qn) == (m1 * qn) \div QDen

\* Lines 42-66: the attributes process assigns, the derived masses from the
\* attributes just assigned.
BNSAssign(obj, kw) ==
    [a \in DOMAIN obj \cup
           {"mchirp", "q", "m1", "m2", "m_total", "disk_frac", "m_tov",
            "radius_ns", "alpha", "cos_theta_open", "errMdyn", "errMdisk"} |->
        CASE a = "mchirp" -> kw.Mchirp
          [] a = "q" -> kw.q
          [] a = "m1" -> M1(kw.Mchirp, kw.q)
          [] a = "m2" -> M2(M1(kw.Mchirp, kw.q), kw.q)
          [] a = "m_total" ->
                M1(kw.Mchirp, kw.q) + M2(M1(kw.Mchirp, kw.q), kw.q)
          [] a = "disk_frac" -> kw.disk_frac
          [] a = "m_tov" -> kw.Mtov
          [] a = "radius_ns" -> kw.radius_ns
          [] a = "alpha" -> kw.alpha
          [] a = "cos_theta_open" -> kw.cos_theta_open
          [] a = "errMdyn" -> kw.errMdyn
          [] a = "errMdisk" -> kw.errMdisk
          [] OTHER -> obj[a]]

\* Lines 69-70: G*m*M_SUN / (radius_ns*1e5 * c**2).
Compactness(m, radius) == (GravRadius * m) \div (10 * radius)

\* Lines 73-74: m + 0.08*m**2.
Baryonic(m) == m + (8 * m * m) \div 100000

\* Lines 80-88: the Dietrich and Ujevic fit, without the factor 1e-3:
\* a_1 = -1.35695, b_1 = 6.11252, c_1 = -49.43355, d_1 = 16.1144.
DynFit(m1, m2, qn, radius) ==
    LET C1  == Compactness(m1, radius)
        C2  == Compactness(m2, radius)
        Mb1 == Baryonic(m1)
        Mb2 == Baryonic(m2)
        A   == (CbrtRatio(qn) * (((100000 - 2 * C1) * Mb1) \div C1)) \div 1000
               + (CbrtInvRatio(qn) * (((100000 - 2 * C2) * Mb2) \div C2))
                    \div 1000
        B   == (PowNRatio(qn) * Mb1) \div 1000
               + (PowNInvRatio(qn) * Mb2) \div 1000
        D   == Mb1 - m1 + Mb2 - m2
    IN  (-13570 * A) \div 10000 + (61125 * B) \div 10000
        + (-494336 * D) \div 10000 + 16114

\* A slip: no floor.
ClampDynMissing(mej) == mej

\* Lines 92-93: if Mejdyn < 0: Mejdyn = 0.
ClampDyn(mej) == IF mej < 0 THEN 0 ELSE mej

\* Lines 85-93.
Mejdyn(fit, errMdyn) == ClampDyn(fit * errMdyn)

\* A slip: c_4 typed as 12.9597.
FRedRawMistyped(qn) ==
    (148609 * QDen * QDen - 286148 * QDen * qn + 129597 * qn * qn)
        \div (qn * qn)

\* Lines 98-102 before the min: a_4*r**2 + b_4*r + c_4 at r = m1/m2 = 1/q,
\* a_4 = 14.8609, b_4 = -28.6148, c_4 = 13.9597.
FRedRaw(qn) ==
    (148609 * QDen * QDen - 286148 * QDen * qn + 139597 * qn * qn)
        \div (qn * qn)

\* Line 102: min([..., 1]).
FRed(qn) == IF FRedRaw(qn) < 10000 THEN FRedRaw(qn) ELSE 10000

\* Lines 106-110: a_2 = -0.219479, b_2 = 0.444836, c_2 = -2.67385.
Vdynp(m1, m2, qn, radius) ==
    LET C1 == Compactness(m1, radius)
        C2 == Compactness(m2, radius)
    IN  (-2195 * (((100000 - (2674 * C1) \div 1000) * QDen) \div qn
                  + ((100000 - (2674 * C2) \div 1000) * qn) \div QDen))
            \div 10000 + 44484

\* Lines 113-117: a_3 = -0.315585, b_3 = 0.63808, c_3 = -1.00757.
Vdynz(m1, m2, qn, radius) ==
    LET C1 == Compactness(m1, radius)
        C2 == Compactness(m2, radius)
    IN  (-3156 * (((100000 - (1008 * C1) \div 1000) * QDen) \div qn
                  + ((100000 - (1008 * C2) \div 1000) * qn) \div QDen))
            \div 10000 + 63808

\* Lines 123-124: len(numpy.arange(start, stop, 0.01)), which is
\* ceil((stop - start)/0.01), or 0 when stop <= start.
GridLen(start, stop) ==
    IF stop > start THEN (stop - start + 999) \div 1000 ELSE 0

\* numpy.trapz(atheta, x=theta), atheta = 2*pi*sin(theta), on a grid of n
\* points in [0, pi): 0.0 on fewer than two points, positive otherwise.
AreaIntegral(n) == IF n >= 2 THEN "pos" ELSE "zero"

\* numpy.trapz(vtheta*atheta, x=theta), vtheta =
\* sqrt((vdynz*cos(theta))**2 + (vdynp*sin(theta))**2).
VelIntegral(n, vz, vp) ==
    IF n >= 2 /\ (vz # 0 \/ vp # 0) THEN "pos" ELSE "zero"

\* Lines 132-133 and 136, 139: the ratio of the integrals, times ckm.
AngularAverage(n, vz, vp) ==
    FMul(FDiv(VelIntegral(n, vz, vp), AreaIntegral(n)), "pos")

(***************************************************************************)
(* The disk: masses are compared on the scale 10*radius_ns per 1e-3 solar  *)
(* masses, on which Mthr = (2.38 - 3.606*Mtov/radius_ns)*Mtov is an        *)
(* integer.                                                                *)
(***************************************************************************)
Scaled(m, radius) == m * 10 * radius

\* Mtov and 1.2*Mtov (lines 174, 178).
ScaledTov(mtov, radius) == 1000 * mtov * radius

ScaledLong(mtov, radius) == 1200 * mtov * radius

\* Line 143.
ScaledThr(mtov, radius) == mtov * (2380 * radius - 3606 * mtov)

RECURSIVE Gcd(_, _)
Gcd(a, b) == IF b = 0 THEN a ELSE Gcd(b, a % b)

Abs(x) == IF x < 0 THEN -x ELSE x

\* The fraction num/den in lowest terms with a positive denominator.
Frac(num, den) ==
    LET g == Gcd(Abs(num), Abs(den))
        sg == IF den < 0 THEN -1 ELSE 1
    IN  [num |-> sg * (num \div g), den |-> sg * (den \div g)]

\* numpy.polyfit([x0, x1], [y0, y1], deg=1) evaluated at x: the line through
\* the two points (x0 # x1).
LineAt(x0, y0, x1, y1, x) ==
    Frac(y0 * (x1 - x0) + (y1 - y0) * (x - x0), x1 - x0)

vdisk_max == 15

vdisk_min == 3

\* Line 169 and lines 183, 188: vfit[0]*m_total + vfit[1].
VFit(sm, mtov, radius) ==
    LineAt(ScaledTov(mtov, radius), vdisk_max,
           ScaledThr(mtov, radius), vdisk_min, sm)

\* Lines 174-192: the branch the if/elif chain takes.
Regime(sm, mtov, radius) ==
    IF sm < ScaledTov(mtov, radius) THEN "stable"
    ELSE IF sm < ScaledLong(mtov, radius) THEN "long-lived"
    ELSE IF sm < ScaledThr(mtov, radius) THEN "short-lived"
    ELSE "prompt collapse"

\* Lines 174-192: Ye and vdisk as the body of each branch sets them.
DiskBranch(regime, sm, mtov, radius) ==
    CASE regime = "stable" ->
            [Ye |-> Frac(38, 1), vdisk |-> Frac(vdisk_max, 1)]
      [] regime = "long-lived" ->
            [Ye |-> LineAt(ScaledTov(mtov, radius), 38,
                           ScaledLong(mtov, radius), 34, sm),
             vdisk |-> VFit(sm, mtov, radius)]
      [] regime = "short-lived" ->
            [Ye |-> LineAt(ScaledLong(mtov, radius), 34,
                           ScaledThr(mtov, radius), 25, sm),
             vdisk |-> VFit(sm, mtov, radius)]
      [] regime = "prompt collapse" ->
            [Ye |-> Frac(25, 1), vdisk |-> Frac(vdisk_min, 1)]

\* Line 145: if self._m_total < Mthr.
BelowThreshold(sm, mtov, radius) == sm < ScaledThr(mtov, radius)

\* Line 146: mejecta_blue /= alpha, when the test of line 145 passes.
BlueWind(mblue, alpha, below) == IF below THEN mblue \div alpha ELSE mblue

\* Lines 156-163: Mdisk = 10**max(-3, ...) is positive and finite;
\* mejecta_purple = Mdisk * errMdisk * disk_frac.
MejectaPurple(errMdisk, disk_frac) ==
    FMul(FMul("pos", Cls(errMdisk)), Cls(disk_frac))

\* Lines 62-202, reading the attributes of the object: the locals at the
\* return statement.  kappa_purple (lines 194-200), a cubic in Ye that no
\* other quantity reads, is not carried.
BNSFrame(obj) ==
    LET fit   == DynFit(obj.m1, obj.m2, obj.q, obj.radius_ns)
        mej   == Mejdyn(fit, obj.errMdyn)
        f_red == FRed(obj.q)
        vz    == Vdynz(obj.m1, obj.m2, obj.q, obj.radius_ns)
        vp    == Vdynp(obj.m1, obj.m2, obj.q, obj.radius_ns)
        theta_open == ArccosOpen(obj.cos_theta_open)
        n1    == GridLen(0, theta_open)
        n2    == GridLen(theta_open, HalfPi)
        sm    == Scaled(obj.m_total, obj.radius_ns)
        below == BelowThreshold(sm, obj.m_tov, obj.radius_ns)
        regime == Regime(sm, obj.m_tov, obj.radius_ns)
        disk  == DiskBranch(regime, sm, obj.m_tov, obj.radius_ns)
    IN  [Mejdyn |-> mej,
         f_red |-> f_red,
         vdynp |-> vp,
         vdynz |-> vz,
         theta1 |-> n1,
         theta2 |-> n2,
         vejecta_blue |-> AngularAverage(n1, vz, vp),
         vejecta_red |-> AngularAverage(n2, vz, vp),
         mejecta_red |-> mej * f_red,
         mejecta_blue |-> BlueWind(mej * (10000 - f_red), obj.alpha, below),
         divided |-> below,
         mejecta_purple |-> MejectaPurple(obj.errMdisk, obj.disk_frac),
         regime |-> regime,
         Ye |-> disk.Ye,
         vdisk |-> disk.vdisk,
         vejecta_purple |-> FMul(Cls(disk.vdisk.num), "pos")]

\* Lines 205-216: the returned dictionary.
BNSReturn(obj, fr) ==
    [mejecta_blue |-> fr.mejecta_blue,
     mejecta_red |-> fr.mejecta_red,
     mejecta_purple |-> fr.mejecta_purple,
     mejecta_dyn |-> fr.Mejdyn,
     vejecta_blue |-> fr.vejecta_blue,
     vejecta_red |-> fr.vejecta_red,
     vejecta_purple |-> fr.vejecta_purple,
     M1 |-> obj.m1,
     M2 |-> obj.m2,
     radius_ns |-> obj.radius_ns]

BNSCompute(obj) == BNSReturn(obj, BNSFrame(obj))

(***************************************************************************)
(* Inputs of BNSEjecta.process.  With Mtov = 2.2 the radii 5, 6.5 and 11.5 *)
(* km put Mthr below Mtov, between Mtov and 1.2*Mtov, and above 1.2*Mtov.  *)
(* q = 21/20 lies outside (0, 1]; process does not check q, and there the  *)
(* red-fraction fit is nearest its minimum.                                *)
(***************************************************************************)
BNSInputs ==
    [Mchirp : {900, 1130, 1200, 1700},
     q : {10, 18, 20, 21},
     disk_frac : {3},
     Mtov : {22},
     radius_ns : {50, 65, 115},
     alpha : {1, 2},
     cos_theta_open : {100000, 99999, 50000, 500, -100000},
     errMdyn : {-1, 1},
     errMdisk : {1}]

BNSProcess ==
    /\ module = "BNSEjecta"
    /\ \E kw \in BNSInputs :
        /\ kwargs' = kw
        /\ self' = BNSAssign(self, kw)
        /\ frame' = BNSFrame(BNSAssign(self, kw))
        /\ result' = BNSCompute(BNSAssign(self, kw))
    /\ reused' = Called
    /\ UNCHANGED <<module, dense_times>>

Init ==
    /\ module \in {"Shock", "BNSEjecta"}
    /\ self = <<>>
    /\ kwargs = NoCall
    /\ frame = NoCall
    /\ result = NoCall
    /\ dense_times = <<>>
    /\ reused = FALSE

Next == ShockProcess \/ BNSProcess

Spec == Init /\ [][Next]_vars

(***************************************************************************)
(* Properties of Shock.process                                             *)
(***************************************************************************)
ShockCalled == module = "Shock" /\ Called

BNSCalled == module = "BNSEjecta" /\ Called

\* C1: Shock.process returns one luminosity per element of dense_times, and
\* the luminosity of every epoch before rest_t_explosion is exactly 0.0,
\* for s above and below -2.
C1_PreExplosionZero ==
    ShockCalled =>
        /\ Len(result.luminosities) = Len(kwargs.dense_times)
        /\ \A i \in 1..Len(kwargs.dense_times) :
              kwargs.dense_times[i] < kwargs.resttexplosion
                  => result.luminosities[i] = "zero"

\* C2: every luminosity Shock.process returns is finite and non-negative
\* (a non-finite power-law value has been replaced by 0.0), at, before and
\* after rest_t_explosion.
C2_FiniteNonNegative ==
    ShockCalled =>
        \A i \in 1..Len(result.luminosities) :
            result.luminosities[i] \in {"zero", "pos"}

\* C3: with cos_theta_cocoon = 1 every luminosity Shock.process returns is
\* exactly 0.0, whatever the epochs, rest_t_explosion and s are.
C3_CocoonOff ==
    (ShockCalled /\ kwargs.cos_theta_cocoon = 100) =>
        \A i \in 1..Len(result.luminosities) :
            result.luminosities[i] = "zero"

\* A call with cos_theta_cocoon = 1 and s < -2 on epochs before, at and
\* after the explosion.
C3_Witness ==
    /\ ShockCalled
    /\ kwargs.cos_theta_cocoon = 100
    /\ kwargs.s < -2
    /\ \E i, j, k \in 1..Len(kwargs.dense_times) :
          /\ kwargs.dense_times[i] < kwargs.resttexplosion
          /\ kwargs.dense_times[j] = kwargs.resttexplosion
          /\ kwargs.dense_times[k] > kwargs.resttexplosion
    /\ Len(result.luminosities) = 3

(***************************************************************************)
(* Properties of BNSEjecta.process                                         *)
(***************************************************************************)
\* C4: mejecta_dyn, mejecta_blue and mejecta_red are each >= 0, whatever
\* the sign of errMdyn.
C4_MassesNonNegative ==
    BNSCalled =>
        /\ result.mejecta_dyn >= 0
        /\ result.mejecta_blue >= 0
        /\ result.mejecta_red >= 0

\* A call whose scatter factor makes the fit negative, so that the floor of
\* lines 92-93 acts, and whose red fraction is below 1.
C4_Witness ==
    /\ BNSCalled
    /\ kwargs.errMdyn < 0
    /\ DynFit(self.m1, self.m2, self.q, self.radius_ns) * kwargs.errMdyn < 0
    /\ frame.f_red < 10000
    /\ result.mejecta_dyn = 0

\* The mass ratios q = k/QDen scanned for the sign of the red-fraction fit:
\* r = m1/m2 = QDen/k runs from 20 down to 0.2, through the fit's minimum
\* near r = 0.963.
RatioScan == 1..100

\* C5 as stated: f_red never exceeds 1, and at some mass ratio r > 0 the
\* fit, having no lower clamp, is negative.
C5_Original ==
    BNSCalled =>
        /\ frame.f_red <= 10000
        /\ \E qn \in RatioScan : FRedRaw(qn) < 0

\* C5 as amended: f_red never exceeds 1 and is never negative: the fit
\* a_4*r**2 + b_4*r + c_4 is positive at every mass ratio, so the missing
\* lower clamp never matters.
C5_FRedPositive ==
    BNSCalled =>
        /\ frame.f_red <= 10000
        /\ frame.f_red > 0
        /\ \A qn \in RatioScan : FRedRaw(qn) > 0

\* A call at q = 1, the valid mass ratio at which the fit is smallest: the
\* upper clamp does not act and f_red is the fit itself.
C5_Witness ==
    /\ BNSCalled
    /\ kwargs.q = QDen
    /\ frame.f_red = FRedRaw(kwargs.q)
    /\ frame.f_red < 10000

\* C6: one of the four disk regimes is selected, and at each of Mtov,
\* 1.2*Mtov and Mthr the branch taken just below and the branch taken from
\* there on give the same Ye and the same vdisk.
C6_Continuity ==
    BNSCalled =>
        /\ frame.regime \in
              {"stable", "long-lived", "short-lived", "prompt collapse"}
        /\ \A b \in {ScaledTov(self.m_tov, self.radius_ns),
                     ScaledLong(self.m_tov, self.radius_ns),
                     ScaledThr(self.m_tov, self.radius_ns)} :
              DiskBranch(Regime(b - 1, self.m_tov, self.radius_ns), b,
                         self.m_tov, self.radius_ns)
              = DiskBranch(Regime(b, self.m_tov, self.radius_ns), b,
                           self.m_tov, self.radius_ns)

\* C7: in every regime 0.25 <= Ye <= 0.38 and
\* vdisk_min = 0.03 <= vdisk <= vdisk_max = 0.15.
C7_Ranges ==
    BNSCalled =>
        /\ 25 * frame.Ye.den <= frame.Ye.num
        /\ frame.Ye.num <= 38 * frame.Ye.den
        /\ vdisk_min * frame.vdisk.den <= frame.vdisk.num
        /\ frame.vdisk.num <= vdisk_max * frame.vdisk.den

\* C8: for every cos_theta_open in [-1, 1], vejecta_blue, vejecta_red and
\* vejecta_purple are each finite and > 0.
C8_VelocitiesPositive ==
    BNSCalled =>
        /\ result.vejecta_blue = "pos"
        /\ result.vejecta_red = "pos"
        /\ result.vejecta_purple = "pos"

\* C9: a call returns what the same call returns on a fresh object, whatever
\* calls the object served before, and leaves the caller's dense_times list
\* as it was passed.
C9_Stateless ==
    /\ ShockCalled =>
          /\ result = ShockCompute(ShockAssign(<<>>, kwargs))
          /\ dense_times = kwargs.dense_times
    /\ BNSCalled => result = BNSCompute(BNSAssign(<<>>, kwargs))

\* A call on an object that served an earlier call, with epochs to return.
C9_Witness ==
    /\ ShockCalled
    /\ reused
    /\ kwargs.s < -2
    /\ Len(dense_times) = 3

\* C10: mejecta_blue is left undivided by alpha exactly when the disk regime
\* selected is prompt collapse.
C10_PromptConsistent ==
    BNSCalled => (~frame.divided <=> frame.regime = "prompt collapse")
====
